---- MODULE Spec2Model ----
(***************************************************************************)
(* Model of the HR directory request handlers in employees/api_views.py.   *)
(* The store is the four tables the handlers touch (User, Employee,        *)
(* Department, EmployeeProfile); every handler is one action that runs the *)
(* whole view function on an authenticated request and records the request *)
(* and its response in `last`.                                             *)
(***************************************************************************)
EXTENDS Integers, FiniteSets, Sequences, TLC

\* ---------------------------------------------------------------- bounds
MaxSteps == 1          \* requests served after the initial database
MaxUsers == 4          \* user ids (and usernames) ever allocated
NumDepartments == 2    \* rows of the Department table
MaxVal == 2            \* values of designation, salary, joining date, profile fields
MaxRequests == 2       \* requests that run interleaved in one behaviour

VARIABLES users, employees, departments, profiles,
          nextUser, nextEmployee, nextProfile, last, steps,
          inflight, started, hist

store == <<users, employees, departments, profiles>>
\* The requests that run step by step (inflight, started) and what the
\* self-edits and approvals did to each profile so far (hist)
conc == <<inflight, started, hist>>
vars == <<users, employees, departments, profiles,
          nextUser, nextEmployee, nextProfile, last, steps,
          inflight, started, hist>>

Roles == {"ADMIN", "HR", "MANAGER", "EMPLOYEE"}
Departments == 1..NumDepartments
Vals == 1..MaxVal
Usernames == 1..MaxUsers

\* ---------------------------------------------------------------- helpers
Remove(f, k) == [x \in DOMAIN f \ {k} |-> f[x]]
Put(f, k, v) == [x \in DOMAIN f \cup {k} |-> IF x = k THEN v ELSE f[x]]
NoBody == [ids |-> {}, verified |-> FALSE, employee_record |-> FALSE]
NoData == [k \in {} |-> 0]

\* IsAdminOrHR with the role list widened by MANAGER
IsAdminOrHR_WithManager(actor) == users[actor].role \in {"ADMIN", "HR", "MANAGER"}

\* IsAdminOrHR that only keeps EMPLOYEE out
IsAdminOrHR_NotEmployee(actor) == users[actor].role # "EMPLOYEE"

\* request.user.role not in ["ADMIN", "HR"]
IsAdminOrHR(actor) == users[actor].role \in {"ADMIN", "HR"}

\* Employee.objects.get(user=user): the pks of the rows that match
EmployeeOf(emps, u) == {e \in DOMAIN emps : emps[e].user = u}

\* EmployeeProfile rows whose owner is u
ProfileOf(profs, u) == {p \in DOMAIN profs : profs[p].employee = u}

\* The request and response of the handler that ran last
\* (target is the id the request names, 0 when it names none; pre is the verified
\* flag the profile concerned had when the request arrived; data is the body
\* of an employee update or of a manager assignment)
Resp(op, method, actor, target, status, body) ==
    [op |-> op, method |-> method, actor |-> actor, target |-> target,
     status |-> status, body |-> body, pre |-> FALSE, data |-> NoData]

\* No request in flight
Idle == [op |-> "none", method |-> "GET", actor |-> 0, target |-> 0,
         status |-> "HTTP_200_OK", body |-> NoBody, pre |-> FALSE, data |-> NoData]

\* A handler starts on a request when the previous response has gone out
Served == last = Idle /\ steps < MaxSteps /\ steps' = steps + 1 /\ UNCHANGED conc

\* ---------------------------------------------------------------- Init
\* EmployeeProfile.objects.create(employee=user): a new row, verified defaults to False
NewProfile(u) == [employee |-> u, fields |-> 0, verified |-> FALSE]

\* The database when the requests start: user 1 has any role and sits in any
\* department or has no Employee row; user 2 was onboarded as an EMPLOYEE of
\* department 1 and its profile may have been approved since; user 3 is an
\* ADMIN without an Employee row, who may have opened the own profile before.
Init ==
    /\ \E r \in Roles :
         users = (1 :> [username |-> 1, role |-> r])
              @@ (2 :> [username |-> 2, role |-> "EMPLOYEE"])
              @@ (3 :> [username |-> 3, role |-> "ADMIN"])
    /\ \E d \in {0} \cup Departments :
         employees =
            LET e1 == 1 :> [user |-> 2, department |-> 1, designation |-> 1,
                            date_of_joining |-> 1, basic_salary |-> 1]
            IN IF d = 0 THEN e1
               ELSE e1 @@ (2 :> [user |-> 1, department |-> d, designation |-> 1,
                                 date_of_joining |-> 1, basic_salary |-> 1])
    /\ departments = [d \in Departments |-> [manager |-> 0]]
    /\ \E approved \in BOOLEAN, opened \in BOOLEAN :
         LET p1 == 1 :> [employee |-> 2, fields |-> 1, verified |-> approved]
         IN /\ profiles = IF opened THEN p1 @@ (2 :> NewProfile(3)) ELSE p1
            /\ nextProfile = IF opened THEN 3 ELSE 2
    /\ nextUser = 4
    /\ nextEmployee = 3
    /\ last = Idle
    /\ steps = 0
    /\ inflight = NoData
    /\ started = 0
    /\ hist = [dirty |-> {}, done |-> NoData]

\* ---------------------------------------------------------------- employee_list_api
employee_list_api(actor) ==
    /\ Served
    /\ UNCHANGED <<store, nextUser, nextEmployee, nextProfile>>
    /\ last' = IF ~IsAdminOrHR(actor)
               THEN Resp("employee_list_api", "GET", actor, 0,
                         "HTTP_403_FORBIDDEN", NoBody)
               ELSE Resp("employee_list_api", "GET", actor, 0,
                         "HTTP_200_OK", [NoBody EXCEPT !.ids = DOMAIN employees])

\* ---------------------------------------------------------------- create_employee_api
CreateFields == {"username", "department", "designation", "date_of_joining", "basic_salary"}

\* Request bodies of create: complete ones, and one that lacks the username
CreateData ==
    {[username |-> u, department |-> d, designation |-> 1,
      date_of_joining |-> 1, basic_salary |-> 1] : u \in Usernames, d \in Departments}
    \cup {[department |-> 1, designation |-> 1, date_of_joining |-> 1, basic_salary |-> 1]}

\* EmployeeCreateSerializer(data=request.data).is_valid(): required fields present
EmployeeCreateSerializer_is_valid(data) == CreateFields \subseteq DOMAIN data

\* User.objects.create_user: the username column is unique
UsernameTaken(usrs, name) == \E u \in DOMAIN usrs : usrs[u].username = name

NewEmployee(u, data) ==
    [user |-> u, department |-> data.department, designation |-> data.designation,
     date_of_joining |-> data.date_of_joining, basic_salary |-> data.basic_salary]

\* Store failures a create can meet after the user row was written
Faults == {"none", "employee", "profile"}

\* NewUser with the role of the account left to the request
NewUser_Manager(data) == [username |-> data.username, role |-> "MANAGER"]

\* lines 36-43: create_user(username=..., role='EMPLOYEE')
NewUser(data) == [username |-> data.username, role |-> "EMPLOYEE"]

\* lines 36-60: the three rows are written one after the other, outside any transaction
Onboard(actor, data, fault) ==
    LET op(status, body) ==
            Resp("create_employee_api", "POST", actor, data.username, status, body)
        newUser == NewUser(data)
    IN
    /\ nextUser <= MaxUsers
    /\ users' = Put(users, nextUser, newUser)
    /\ nextUser' = nextUser + 1
    /\ IF fault = "employee" THEN
            \* Employee.objects.create raises: the user row stays
            /\ last' = op("HTTP_500_INTERNAL_SERVER_ERROR", NoBody)
            /\ UNCHANGED <<employees, profiles, nextEmployee, nextProfile>>
       ELSE
            /\ employees' = Put(employees, nextEmployee, NewEmployee(nextUser, data))
            /\ nextEmployee' = nextEmployee + 1
            /\ IF fault = "profile" THEN
                    \* EmployeeProfile.objects.create raises: user and employee stay
                    /\ last' = op("HTTP_500_INTERNAL_SERVER_ERROR", NoBody)
                    /\ UNCHANGED <<profiles, nextProfile>>
               ELSE
                    /\ profiles' = Put(profiles, nextProfile, NewProfile(nextUser))
                    /\ nextProfile' = nextProfile + 1
                    /\ last' = op("HTTP_201_CREATED", [NoBody EXCEPT !.ids = {nextEmployee}])

\* OnConflict as with User.objects.get_or_create: the existing user is onboarded again
OnConflict_Reuse(actor, data) ==
    LET u == CHOOSE x \in DOMAIN users : users[x].username = data.username
    IN /\ last' = Resp("create_employee_api", "POST", actor, data.username,
                       "HTTP_201_CREATED", [NoBody EXCEPT !.ids = {nextEmployee}])
       /\ employees' = Put(employees, nextEmployee, NewEmployee(u, data))
       /\ nextEmployee' = nextEmployee + 1
       /\ profiles' = Put(profiles, nextProfile, NewProfile(u))
       /\ nextProfile' = nextProfile + 1
       /\ UNCHANGED <<users, nextUser>>

\* line 36: create_user raises on a taken username, before any row is written
OnConflict(actor, data) ==
    /\ last' = Resp("create_employee_api", "POST", actor, data.username,
                    "ConflictError", NoBody)
    /\ UNCHANGED <<users, employees, profiles, nextUser, nextEmployee, nextProfile>>

create_employee_api(actor) ==
    LET op(status, body) == Resp("create_employee_api", "POST", actor, 0, status, body)
        same == UNCHANGED <<users, employees, profiles, nextUser, nextEmployee, nextProfile>>
    IN
    /\ Served
    /\ UNCHANGED departments
    /\ IF ~IsAdminOrHR(actor) THEN
            last' = op("HTTP_403_FORBIDDEN", NoBody) /\ same
       ELSE \E data \in CreateData :
            IF ~EmployeeCreateSerializer_is_valid(data) THEN
                last' = op("HTTP_400_BAD_REQUEST", NoBody) /\ same
            ELSE IF UsernameTaken(users, data.username) THEN
                OnConflict(actor, data)
            ELSE \E fault \in Faults : Onboard(actor, data, fault)

\* ---------------------------------------------------------------- employee_detail_api
UpdateFields == {"department", "designation", "basic_salary", "date_of_joining"}

\* Request bodies of update: every subset of the four fields, carrying one value
UpdateData == UNION {[K -> {v}] : K \in SUBSET UpdateFields, v \in Vals}

\* ApplyUpdate as a full replace: a field the body lacks is blanked
ApplyUpdate_Replace(employee, data) ==
    [k \in DOMAIN employee |->
        IF k \in DOMAIN data THEN data[k] ELSE IF k = "user" THEN employee[k] ELSE 0]

\* lines 79-86: a field present in request.data overwrites the employee's field
ApplyUpdate(employee, data) ==
    [employee EXCEPT
        !.department = IF "department" \in DOMAIN data THEN data["department"] ELSE @,
        !.designation = IF "designation" \in DOMAIN data THEN data["designation"] ELSE @,
        !.basic_salary = IF "basic_salary" \in DOMAIN data THEN data["basic_salary"] ELSE @,
        !.date_of_joining = IF "date_of_joining" \in DOMAIN data
                            THEN data["date_of_joining"] ELSE @]

\* DeletedUser as employee.delete(): the account is not touched
DeletedUser_None(usrs, emps, pk) == usrs

\* line 92: employee.user.delete() removes the account of the employee
DeletedUser(usrs, emps, pk) == Remove(usrs, emps[pk].user)

\* employee.user.delete(): the user row goes and the Employee row with it
\* (on_delete cascade); the EmployeeProfile row stays
DeleteUserCascade(emps, u) == [e \in {x \in DOMAIN emps : emps[x].user # u} |-> emps[e]]

employee_detail_api(actor, method, pk) ==
    LET op(status, body) == Resp("employee_detail_api", method, actor, pk, status, body)
    IN
    /\ Served
    /\ method \in {"GET", "PUT", "DELETE"}
    /\ UNCHANGED <<departments, profiles, nextUser, nextEmployee, nextProfile>>
    /\ IF ~IsAdminOrHR(actor) THEN
            /\ last' = op("HTTP_403_FORBIDDEN", NoBody)
            /\ UNCHANGED <<users, employees>>
       ELSE IF pk \notin DOMAIN employees THEN
            /\ last' = op("HTTP_404_NOT_FOUND", NoBody)
            /\ UNCHANGED <<users, employees>>
       ELSE IF method = "GET" THEN
            /\ last' = op("HTTP_200_OK", [NoBody EXCEPT !.ids = {pk}])
            /\ UNCHANGED <<users, employees>>
       ELSE IF method = "PUT" THEN
            /\ \E data \in UpdateData :
                 /\ employees' = [employees EXCEPT ![pk] = ApplyUpdate(@, data)]
                 /\ last' = [op("HTTP_200_OK", [NoBody EXCEPT !.ids = {pk}])
                             EXCEPT !.data = data]
            /\ UNCHANGED users
       ELSE
            /\ users' = DeletedUser(users, employees, pk)
            /\ employees' = DeleteUserCascade(employees, employees[pk].user)
            /\ last' = op("HTTP_204_NO_CONTENT", NoBody)

\* ---------------------------------------------------------------- departments_api, designations_api
departments_api(actor) ==
    /\ Served
    /\ UNCHANGED <<store, nextUser, nextEmployee, nextProfile>>
    /\ last' = Resp("departments_api", "GET", actor, 0, "HTTP_200_OK",
                    [NoBody EXCEPT !.ids = Departments])

designations_api(actor) ==
    /\ Served
    /\ UNCHANGED <<store, nextUser, nextEmployee, nextProfile>>
    /\ last' = Resp("designations_api", "GET", actor, 0, "HTTP_200_OK",
                    [NoBody EXCEPT !.ids = Vals])

\* ---------------------------------------------------------------- update_department_manager_api
\* ManagerMissing without the lookup of the employee
ManagerMissing_Never(manager_id, emps) == FALSE

\* lines 115-116: a manager id that is given must name an Employee row
ManagerMissing(manager_id, emps) == manager_id # 0 /\ manager_id \notin DOMAIN emps

update_department_manager_api(actor, department_id) ==
    LET op(status, body) ==
            Resp("update_department_manager_api", "POST", actor, department_id, status, body)
        body(m) == "manager_id" :> m
    IN
    /\ Served
    /\ UNCHANGED <<users, employees, profiles, nextUser, nextEmployee, nextProfile>>
    /\ IF ~IsAdminOrHR(actor) THEN
            /\ last' = op("HTTP_403_FORBIDDEN", NoBody)
            /\ UNCHANGED departments
       ELSE IF department_id \notin Departments THEN
            /\ last' = op("HTTP_404_NOT_FOUND", NoBody)
            /\ UNCHANGED departments
       ELSE \E manager_id \in 0..nextEmployee :
            IF ManagerMissing(manager_id, employees) THEN
                /\ last' = [op("HTTP_404_NOT_FOUND", NoBody) EXCEPT !.data = body(manager_id)]
                /\ UNCHANGED departments
            ELSE
                /\ departments' = [departments EXCEPT ![department_id].manager = manager_id]
                /\ last' = [op("HTTP_200_OK", [NoBody EXCEPT !.ids = {department_id}])
                            EXCEPT !.data = body(manager_id)]

\* ---------------------------------------------------------------- employee_profile_api
\* EmployeeProfile.objects.get_or_create(employee=user): the row's pk, and the table after
GetOrCreatePk(profs, u, fresh) ==
    IF ProfileOf(profs, u) # {} THEN CHOOSE p \in ProfileOf(profs, u) : TRUE ELSE fresh

\* GetOrCreate as update_or_create: a row that exists is set back to the defaults
GetOrCreate_Defaults(profs, u, fresh) ==
    IF ProfileOf(profs, u) # {}
    THEN [p \in DOMAIN profs |-> IF profs[p].employee = u THEN NewProfile(u) ELSE profs[p]]
    ELSE Put(profs, fresh, NewProfile(u))

GetOrCreate(profs, u, fresh) ==
    IF ProfileOf(profs, u) # {} THEN profs ELSE Put(profs, fresh, NewProfile(u))

\* Request bodies of a self-edit: fields is 0 when the body carries no field,
\* verified says whether the body tries to set the flag, valid is the
\* serializer's verdict on the body
ProfileData == [fields : {0} \cup Vals, verified : {"absent", "true"}, valid : BOOLEAN]

\* EmployeeProfileSerializer(profile, data=..., partial=True).save(): writes the
\* submitted attributes to the instance and saves it
EmployeeProfileSerializer_save(profile, data) ==
    [profile EXCEPT !.fields = IF data.fields # 0 THEN data.fields ELSE @,
                    !.verified = IF data.verified = "true" THEN TRUE ELSE @]

\* ResetVerification without the reset
ResetVerification_Skip(profile) == profile

\* lines 158-159: profile.verified = False; profile.save()
ResetVerification(profile) == [profile EXCEPT !.verified = FALSE]

employee_profile_api(actor, method) ==
    LET op(status, body) == Resp("employee_profile_api", method, actor, 0, status, body)
        pk == GetOrCreatePk(profiles, actor, nextProfile)
        got == GetOrCreate(profiles, actor, nextProfile)
    IN
    /\ Served
    /\ method \in {"GET", "PUT"}
    /\ UNCHANGED <<users, employees, departments, nextUser, nextEmployee>>
    /\ nextProfile' = IF pk = nextProfile THEN nextProfile + 1 ELSE nextProfile
    /\ IF method = "GET" THEN
            /\ profiles' = got
            /\ last' = op("HTTP_200_OK",
                          [ids |-> {pk}, verified |-> got[pk].verified,
                           employee_record |-> EmployeeOf(employees, actor) # {}])
       ELSE \E data \in ProfileData :
            IF data.valid THEN
                LET saved == ResetVerification(EmployeeProfileSerializer_save(got[pk], data))
                IN /\ profiles' = [got EXCEPT ![pk] = saved]
                   /\ last' = [op("HTTP_200_OK",
                                    [ids |-> {pk}, verified |-> saved.verified,
                                     employee_record |-> FALSE])
                               EXCEPT !.pre = got[pk].verified]
            ELSE
                /\ profiles' = got
                /\ last' = [op("HTTP_400_BAD_REQUEST", NoBody)
                            EXCEPT !.pre = got[pk].verified]

\* ---------------------------------------------------------------- view_profile_api
\* NoOwnEmployee with the DoesNotExist branch passing instead of returning
NoOwnEmployee_Pass(role, own) == FALSE

\* lines 171-176: a MANAGER or EMPLOYEE without an Employee row is turned away
NoOwnEmployee(role, own) == role \in {"MANAGER", "EMPLOYEE"} /\ own = {}

\* TargetAllowed with the MANAGER branch lacking the department comparison
TargetAllowed_NoDepartment(role, actor, logged_in_emp, target, emps) ==
    IF role \in {"ADMIN", "HR"} THEN TRUE
    ELSE IF role = "MANAGER" THEN logged_in_emp # 0
    ELSE logged_in_emp # 0 /\ emps[target].user = actor

\* lines 185-192: may this actor see the profile of employee `target`
\* (logged_in_emp is 0 for None)
TargetAllowed(role, actor, logged_in_emp, target, emps) ==
    IF role \in {"ADMIN", "HR"} THEN TRUE
    ELSE IF role = "MANAGER" THEN
        /\ logged_in_emp # 0
        /\ emps[target].department = emps[logged_in_emp].department
    ELSE
        /\ logged_in_emp # 0
        /\ emps[target].user = actor

view_profile_api(actor, emp_id) ==
    LET op(status, body) == Resp("view_profile_api", "GET", actor, emp_id, status, body)
        role == users[actor].role
        own == EmployeeOf(employees, actor)
        logged_in_emp == IF role \in {"MANAGER", "EMPLOYEE"} /\ own # {}
                         THEN CHOOSE e \in own : TRUE ELSE 0
        target == IF emp_id = 0 THEN logged_in_emp ELSE emp_id
        owner == employees[target].user
        pk == GetOrCreatePk(profiles, owner, nextProfile)
        got == GetOrCreate(profiles, owner, nextProfile)
        deny == /\ last' = op("HTTP_403_FORBIDDEN", NoBody)
                /\ UNCHANGED <<profiles, nextProfile>>
    IN
    /\ Served
    /\ UNCHANGED <<users, employees, departments, nextUser, nextEmployee>>
    /\ IF NoOwnEmployee(role, own) THEN deny
       ELSE IF emp_id = 0 /\ logged_in_emp = 0 THEN deny
       ELSE IF emp_id # 0 /\ emp_id \notin DOMAIN employees THEN
            /\ last' = op("HTTP_404_NOT_FOUND", NoBody)
            /\ UNCHANGED <<profiles, nextProfile>>
       ELSE IF emp_id # 0 /\ ~TargetAllowed(role, actor, logged_in_emp, target, employees)
       THEN deny
       ELSE
            /\ profiles' = got
            /\ nextProfile' = IF pk = nextProfile THEN nextProfile + 1 ELSE nextProfile
            /\ last' = op("HTTP_200_OK",
                          [ids |-> {target}, verified |-> got[pk].verified,
                           employee_record |-> TRUE])

\* ---------------------------------------------------------------- pending_profiles_api
\* PendingProfiles without the role condition
PendingProfiles_AnyRole(profs, usrs) == {p \in DOMAIN profs : profs[p].verified = FALSE}

\* EmployeeProfile.objects.filter(verified=False, employee__role="EMPLOYEE")
PendingProfiles(profs, usrs) ==
    {p \in DOMAIN profs : /\ profs[p].verified = FALSE
                          /\ profs[p].employee \in DOMAIN usrs
                          /\ usrs[profs[p].employee].role = "EMPLOYEE"}

pending_profiles_api(actor) ==
    /\ Served
    /\ UNCHANGED <<store, nextUser, nextEmployee, nextProfile>>
    /\ last' = IF ~IsAdminOrHR(actor)
               THEN Resp("pending_profiles_api", "GET", actor, 0, "HTTP_403_FORBIDDEN", NoBody)
               ELSE Resp("pending_profiles_api", "GET", actor, 0, "HTTP_200_OK",
                         [NoBody EXCEPT !.ids = PendingProfiles(profiles, users)])

\* ---------------------------------------------------------------- approve_profile_api
\* Approve that flips the flag instead of setting it
Approve_Toggle(profile) == [profile EXCEPT !.verified = ~@]

\* lines 223-224: profile.verified = True; profile.save()
Approve(profile) == [profile EXCEPT !.verified = TRUE]

approve_profile_api(actor, profile_id) ==
    LET op(status, body) == Resp("approve_profile_api", "POST", actor, profile_id, status, body)
    IN
    /\ Served
    /\ UNCHANGED <<users, employees, departments, nextUser, nextEmployee, nextProfile>>
    /\ IF ~IsAdminOrHR(actor) THEN
            /\ last' = op("HTTP_403_FORBIDDEN", NoBody)
            /\ UNCHANGED profiles
       ELSE IF profile_id \notin DOMAIN profiles THEN
            /\ last' = op("HTTP_404_NOT_FOUND", NoBody)
            /\ UNCHANGED profiles
       ELSE
            /\ profiles' = [profiles EXCEPT ![profile_id] = Approve(@)]
            /\ last' = [op("HTTP_200_OK", [NoBody EXCEPT !.ids = {profile_id}])
                        EXCEPT !.pre = profiles[profile_id].verified]

\* ---------------------------------------------------------------- requests
\* One request per step: any authenticated user, any id or body
Actors == DOMAIN users

ListEmployees == \E actor \in Actors : employee_list_api(actor)
CreateEmployee == \E actor \in Actors : create_employee_api(actor)
ReadEmployee == \E actor \in Actors, pk \in 1..nextEmployee :
                    employee_detail_api(actor, "GET", pk)
UpdateEmployee == \E actor \in Actors, pk \in 1..nextEmployee :
                    employee_detail_api(actor, "PUT", pk)
DeleteEmployee == \E actor \in Actors, pk \in 1..nextEmployee :
                    employee_detail_api(actor, "DELETE", pk)
ListDepartments == \E actor \in Actors : departments_api(actor)
ListDesignations == \E actor \in Actors : designations_api(actor)
AssignManager == \E actor \in Actors, d \in 0..NumDepartments :
                    update_department_manager_api(actor, d)
ReadOwnProfile == \E actor \in Actors : employee_profile_api(actor, "GET")
EditOwnProfile == \E actor \in Actors : employee_profile_api(actor, "PUT")
ViewProfile == \E actor \in Actors, emp_id \in 0..nextEmployee :
                    view_profile_api(actor, emp_id)
ListPending == \E actor \in Actors : pending_profiles_api(actor)
ApproveProfile == \E actor \in Actors, profile_id \in 1..nextProfile :
                    approve_profile_api(actor, profile_id)

\* return Response(...): the response leaves, the store stays as the handler left it
Deliver ==
    /\ last # Idle
    /\ last' = Idle
    /\ UNCHANGED <<store, nextUser, nextEmployee, nextProfile, steps, conc>>

Next ==
    \/ ListEmployees
    \/ CreateEmployee
    \/ ReadEmployee
    \/ UpdateEmployee
    \/ DeleteEmployee
    \/ ListDepartments
    \/ ListDesignations
    \/ AssignManager
    \/ ReadOwnProfile
    \/ EditOwnProfile
    \/ ViewProfile
    \/ ListPending
    \/ ApproveProfile
    \/ Deliver

Spec == Init /\ [][Next]_vars

\* ---------------------------------------------------------------- interleaved requests
\* The profile handlers again, one store read or write per step. A request in
\* flight holds the account whose profile it works on, its position in the
\* handler, and the EmployeeProfile instance it has in memory (pk 0: none yet).
\* inflight counts the requests in flight that are alike.
\* hist.dirty holds the profiles whose content a self-edit wrote after their
\* latest approval; hist.done gives, for a profile whose latest self-edit
\* write was that of a self-edit that completed, the fields that edit stored.
Request(kind, user, pc, pk) ==
    [kind |-> kind, user |-> user, pc |-> pc, pk |-> pk, inst |-> NewProfile(user)]

Add(reqs, req) ==
    IF req \in DOMAIN reqs THEN [reqs EXCEPT ![req] = @ + 1] ELSE Put(reqs, req, 1)

Drop(reqs, req) ==
    IF reqs[req] > 1 THEN [reqs EXCEPT ![req] = @ - 1] ELSE Remove(reqs, req)

Begin(req) ==
    /\ started < MaxRequests
    /\ started' = started + 1
    /\ inflight' = Add(inflight, req)
    /\ UNCHANGED <<store, nextUser, nextEmployee, nextProfile, last, steps, hist>>

\* employee_profile_api, PUT and GET
StartEdit == \E actor \in Actors : Begin(Request("edit", actor, "get", 0))
StartRead == \E actor \in Actors : Begin(Request("read", actor, "get", 0))

\* view_profile_api with an emp id the policy lets through (lines 171-192)
StartView ==
    \E actor \in Actors, emp_id \in DOMAIN employees :
        LET role == users[actor].role
            own == EmployeeOf(employees, actor)
            logged_in_emp == IF role \in {"MANAGER", "EMPLOYEE"} /\ own # {}
                             THEN CHOOSE e \in own : TRUE ELSE 0
        IN /\ ~NoOwnEmployee(role, own)
           /\ TargetAllowed(role, actor, logged_in_emp, emp_id, employees)
           /\ Begin(Request("view", employees[emp_id].user, "get", 0))

\* approve_profile_api past its role check (lines 219-220)
StartApprove ==
    \E actor \in Actors, profile_id \in 1..nextProfile :
        /\ IsAdminOrHR(actor)
        /\ Begin(Request("approve", 0, "load", profile_id))

\* Where a request goes once it holds its profile: the self-edit validates
\* and saves, the views answer
After(req, pk, inst) ==
    IF req.kind = "edit"
    THEN Add(Drop(inflight, req), [req EXCEPT !.pk = pk, !.inst = inst, !.pc = "save"])
    ELSE Drop(inflight, req)

\* get_or_create, the get: the row of the account, if there is one
Lookup ==
    \E req \in DOMAIN inflight :
        LET rows == ProfileOf(profiles, req.user)
        IN /\ req.pc = "get"
           /\ inflight' = IF rows = {}
                          THEN Add(Drop(inflight, req), [req EXCEPT !.pc = "create"])
                          ELSE LET pk == CHOOSE p \in rows : TRUE
                               IN After(req, pk, profiles[pk])
           /\ UNCHANGED <<store, nextUser, nextEmployee, nextProfile, last, steps,
                          started, hist>>

\* OwnerFree without the unique constraint on EmployeeProfile.employee
OwnerFree_Always(profs, u) == TRUE

\* EmployeeProfile.employee is one-to-one: the store takes a row for an account
\* only while the account has none
OwnerFree(profs, u) == ProfileOf(profs, u) = {}

\* get_or_create, the create: insert, or on the store's refusal get the row
\* that another request inserted meanwhile
Insert ==
    \E req \in DOMAIN inflight :
        /\ req.pc = "create"
        /\ IF OwnerFree(profiles, req.user) THEN
              /\ profiles' = Put(profiles, nextProfile, NewProfile(req.user))
              /\ nextProfile' = nextProfile + 1
              /\ inflight' = After(req, nextProfile, NewProfile(req.user))
           ELSE
              /\ inflight' = LET pk == CHOOSE p \in ProfileOf(profiles, req.user) : TRUE
                             IN After(req, pk, profiles[pk])
              /\ UNCHANGED <<profiles, nextProfile>>
        /\ UNCHANGED <<users, employees, departments, nextUser, nextEmployee,
                       last, steps, started, hist>>

\* lines 152-156: is_valid, then serializer.save() writes the instance as it is
\* in memory, with the submitted attributes
Save ==
    \E req \in DOMAIN inflight : \E data \in ProfileData :
        LET inst == EmployeeProfileSerializer_save(req.inst, data)
        IN /\ req.pc = "save"
           /\ IF data.valid THEN
                 /\ profiles' = [profiles EXCEPT ![req.pk] = inst]
                 /\ inflight' = Add(Drop(inflight, req),
                                    [req EXCEPT !.inst = inst, !.pc = "reset"])
                 /\ hist' = [dirty |-> hist.dirty \cup {req.pk},
                             done |-> Remove(hist.done, req.pk)]
              ELSE
                 /\ inflight' = Drop(inflight, req)
                 /\ UNCHANGED <<profiles, hist>>
           /\ UNCHANGED <<users, employees, departments, nextUser, nextEmployee,
                          nextProfile, last, steps, started>>

\* lines 158-160: verified = False on the instance, profile.save(), response
Reset ==
    \E req \in DOMAIN inflight :
        LET inst == ResetVerification(req.inst)
        IN /\ req.pc = "reset"
           /\ profiles' = [profiles EXCEPT ![req.pk] = inst]
           /\ inflight' = Drop(inflight, req)
           /\ hist' = [dirty |-> hist.dirty \cup {req.pk},
                       done |-> Put(hist.done, req.pk, inst.fields)]
           /\ UNCHANGED <<users, employees, departments, nextUser, nextEmployee,
                          nextProfile, last, steps, started>>

\* the request dies between serializer.save() and profile.save()
Crash ==
    \E req \in DOMAIN inflight :
        /\ req.pc = "reset"
        /\ inflight' = Drop(inflight, req)
        /\ UNCHANGED <<store, nextUser, nextEmployee, nextProfile, last, steps,
                       started, hist>>

\* line 222: get_object_or_404(EmployeeProfile, id=profile_id)
Load ==
    \E req \in DOMAIN inflight :
        /\ req.pc = "load"
        /\ inflight' = IF req.pk \in DOMAIN profiles
                       THEN Add(Drop(inflight, req),
                                [req EXCEPT !.inst = profiles[req.pk], !.pc = "approve"])
                       ELSE Drop(inflight, req)
        /\ UNCHANGED <<store, nextUser, nextEmployee, nextProfile, last, steps,
                       started, hist>>

\* lines 223-225: verified = True on the instance, profile.save(), response
Write ==
    \E req \in DOMAIN inflight :
        /\ req.pc = "approve"
        /\ profiles' = [profiles EXCEPT ![req.pk] = Approve(req.inst)]
        /\ inflight' = Drop(inflight, req)
        /\ hist' = [hist EXCEPT !.dirty = @ \ {req.pk}]
        /\ UNCHANGED <<users, employees, departments, nextUser, nextEmployee,
                       nextProfile, last, steps, started>>

\* create_employee_api, served whole once the interleaved requests are through
Onboarding == inflight = NoData /\ started = MaxRequests /\ CreateEmployee

\* The database of Init with account 1 an EMPLOYEE, of department 1 if it has
\* an Employee row
RaceInit ==
    /\ Init
    /\ users[1].role = "EMPLOYEE"
    /\ \A e \in DOMAIN employees : employees[e].department = 1

RaceNext ==
    \/ StartEdit
    \/ StartRead
    \/ StartView
    \/ StartApprove
    \/ Lookup
    \/ Insert
    \/ Save
    \/ Reset
    \/ Crash
    \/ Load
    \/ Write
    \/ Onboarding

SpecRace == RaceInit /\ [][RaceNext]_vars

\* ---------------------------------------------------------------- claims
Denied == "HTTP_403_FORBIDDEN"
Ok == "HTTP_200_OK"
LowRoles == {"MANAGER", "EMPLOYEE"}
counters == <<nextUser, nextEmployee, nextProfile>>

AdminOnlyOps == {"employee_list_api", "create_employee_api", "employee_detail_api",
                 "update_department_manager_api", "pending_profiles_api",
                 "approve_profile_api"}

\* C1: every ADMIN/HR-only operation requested by a MANAGER or EMPLOYEE ends in
\* PermissionDenied and leaves users, employees, departments and profiles as
\* they were, whether or not the id it names exists.
C1_DeniedTouchesNothing ==
    [][(last'.op \in AdminOnlyOps /\ users[last'.actor].role \in LowRoles)
        => (last'.status = Denied /\ store' = store /\ counters' = counters)]_vars

\* a MANAGER/EMPLOYEE was refused the delete of an employee that exists
C1_Witness ==
    /\ last.op = "employee_detail_api" /\ last.method = "DELETE"
    /\ last.actor \in DOMAIN users /\ users[last.actor].role \in LowRoles
    /\ last.target \in DOMAIN employees
    /\ last.status = Denied

\* The policy table's answer for "view target profile"
TableAllows(actor, target) ==
    LET role == users[actor].role
        own == EmployeeOf(employees, actor)
    IN \/ role \in {"ADMIN", "HR"}
       \/ /\ role = "MANAGER"
          /\ \E e \in own : employees[e].department = employees[target].department
       \/ /\ role = "EMPLOYEE"
          /\ target \in own

\* C2: a profile view that names an existing employee succeeds exactly when the
\* policy table allows it (ADMIN/HR always, MANAGER for the own department,
\* EMPLOYEE for the own record) and is PermissionDenied otherwise.
C2_ViewMatchesTable ==
    (/\ last.op = "view_profile_api"
     /\ last.target \in DOMAIN employees)
    => /\ last.status \in {Ok, Denied}
       /\ last.status = Ok <=> TableAllows(last.actor, last.target)

\* a MANAGER saw the profile of another employee of the own department
C2_Witness ==
    /\ last.op = "view_profile_api" /\ last.status = Ok
    /\ last.target \in DOMAIN employees
    /\ users[last.actor].role = "MANAGER"
    /\ employees[last.target].user # last.actor

\* C3: a MANAGER or EMPLOYEE that has no Employee record is denied every profile
\* view that names a target, existing or not, and the request creates no
\* profile and changes nothing.
C3_FailClosed ==
    [][(/\ last'.op = "view_profile_api"
        /\ last'.target # 0
        /\ users[last'.actor].role \in LowRoles
        /\ EmployeeOf(employees, last'.actor) = {})
        => (last'.status = Denied /\ store' = store /\ counters' = counters)]_vars

\* such an actor asked for an employee id that does not exist and was denied
C3_Witness ==
    /\ last.op = "view_profile_api" /\ last.status = Denied
    /\ last.target # 0 /\ last.target \notin DOMAIN employees
    /\ users[last.actor].role \in LowRoles
    /\ EmployeeOf(employees, last.actor) = {}

\* C4: a profile view without a target id never ends in an error, for any role:
\* the actor's profile exists afterwards, and an actor without an Employee
\* record gets it without an employee_record.
C4_OwnViewNeverFails ==
    (\/ last.op = "employee_profile_api" /\ last.method = "GET"
     \/ last.op = "view_profile_api" /\ last.target = 0)
    => /\ last.status = Ok
       /\ ProfileOf(profiles, last.actor) # {}
       /\ EmployeeOf(employees, last.actor) = {} => ~last.body.employee_record

\* C5: a successful self-edit leaves the owner's profile UNVERIFIED and reports
\* verified=false, whatever the profile's state and the body (one that changes
\* no field, one that sets verified); a rejected self-edit changes no
\* profile's verification state.
C5_SelfEditResets ==
    [][(last'.op = "employee_profile_api" /\ last'.method = "PUT")
        => /\ last'.status \in {Ok, "HTTP_400_BAD_REQUEST"}
           /\ last'.status = Ok =>
                /\ ProfileOf(profiles', last'.actor) # {}
                /\ \A p \in ProfileOf(profiles', last'.actor) : ~profiles'[p].verified
                /\ ~last'.body.verified
           /\ last'.status # Ok =>
                \A p \in DOMAIN profiles : profiles'[p].verified = profiles[p].verified]_vars

\* the owner of a VERIFIED profile edited it
C5_Witness ==
    /\ last.op = "employee_profile_api" /\ last.method = "PUT"
    /\ last.status = Ok /\ last.pre
    /\ \A p \in ProfileOf(profiles, last.actor) : ~profiles[p].verified

\* C6: a profile's verified flag goes from false to true only in an approve of
\* that profile by an ADMIN or HR actor, and a profile that appears starts
\* UNVERIFIED.
C6_OnlyApproveVerifies ==
    [][\A p \in DOMAIN profiles' :
          /\ p \notin DOMAIN profiles => ~profiles'[p].verified
          /\ (p \in DOMAIN profiles /\ ~profiles[p].verified /\ profiles'[p].verified)
               => /\ last'.op = "approve_profile_api"
                  /\ last'.target = p
                  /\ users[last'.actor].role \in {"ADMIN", "HR"}]_vars

\* an UNVERIFIED profile was approved
C6_Witness ==
    /\ last.op = "approve_profile_api" /\ last.status = Ok /\ ~last.pre
    /\ profiles[last.target].verified

\* C7: an ADMIN/HR approve of an existing profile succeeds and leaves the
\* profile VERIFIED and every other row as it was; on an already VERIFIED
\* profile it changes nothing at all.
C7_ApproveIdempotent ==
    [][(/\ last'.op = "approve_profile_api"
        /\ users[last'.actor].role \in {"ADMIN", "HR"}
        /\ last'.target \in DOMAIN profiles)
        => /\ last'.status = Ok
           /\ profiles' = [profiles EXCEPT ![last'.target].verified = TRUE]
           /\ UNCHANGED <<users, employees, departments>>
           /\ profiles[last'.target].verified => store' = store]_vars

\* a VERIFIED profile was approved again
C7_Witness ==
    /\ last.op = "approve_profile_api" /\ last.status = Ok /\ last.pre
    /\ profiles[last.target].verified

\* C8: the pending list an ADMIN/HR actor gets holds exactly the UNVERIFIED
\* profiles of EMPLOYEE principals: none of another role, none VERIFIED, none
\* missing.
C8_PendingExact ==
    (last.op = "pending_profiles_api" /\ users[last.actor].role \in {"ADMIN", "HR"})
    => /\ last.status = Ok
       /\ \A p \in last.body.ids :
            /\ p \in DOMAIN profiles
            /\ ~profiles[p].verified
            /\ profiles[p].employee \in DOMAIN users
            /\ users[profiles[p].employee].role = "EMPLOYEE"
       /\ \A p \in DOMAIN profiles :
            (/\ ~profiles[p].verified
             /\ profiles[p].employee \in DOMAIN users
             /\ users[profiles[p].employee].role = "EMPLOYEE") => p \in last.body.ids

\* the list was served while an UNVERIFIED profile of a non-EMPLOYEE existed
C8_Witness ==
    /\ last.op = "pending_profiles_api" /\ last.status = Ok
    /\ \E p \in DOMAIN profiles :
         /\ ~profiles[p].verified
         /\ profiles[p].employee \in DOMAIN users
         /\ users[profiles[p].employee].role # "EMPLOYEE"
         /\ p \notin last.body.ids
    /\ last.body.ids # {}

\* C9: create employee writes the principal, its Employee and its Profile
\* together or writes nothing: no request leaves a principal it created without
\* an Employee or without a Profile.
C9_AtomicOnboarding ==
    [][last'.op = "create_employee_api"
        => \/ store' = store
           \/ \E u \in DOMAIN users' \ DOMAIN users :
                /\ DOMAIN users' = DOMAIN users \cup {u}
                /\ EmployeeOf(employees', u) # {}
                /\ ProfileOf(profiles', u) # {}]_vars

C11_PartialUpdate ==
    [][(last'.op = "employee_detail_api" /\ last'.method = "PUT" /\ last'.status = Ok)
        => LET pk == last'.target
               data == last'.data
           IN /\ DOMAIN employees' = DOMAIN employees
              /\ employees'[pk].user = employees[pk].user
              /\ \A k \in UpdateFields :
                    employees'[pk][k] = IF k \in DOMAIN data THEN data[k] ELSE employees[pk][k]
              /\ \A e \in DOMAIN employees \ {pk} : employees'[e] = employees[e]
              /\ UNCHANGED <<users, departments, profiles>>]_vars

\* only the salary was sent and only the salary changed
C11_Witness ==
    /\ last.op = "employee_detail_api" /\ last.method = "PUT" /\ last.status = Ok
    /\ DOMAIN last.data = {"basic_salary"}
    /\ employees[last.target].basic_salary = 2
    /\ employees[last.target].designation = 1
    /\ employees[last.target].date_of_joining = 1

\* C12: a delete of an employee removes its account and its Employee row,
\* and every profile, the one of the deleted account included, stays with its
\* content and verification state.
C12_DeleteKeepsProfile ==
    [][(last'.op = "employee_detail_api" /\ last'.method = "DELETE"
        /\ last'.status = "HTTP_204_NO_CONTENT")
        => LET pk == last'.target
               u == employees[pk].user
           IN /\ u \notin DOMAIN users'
              /\ pk \notin DOMAIN employees'
              /\ EmployeeOf(employees', u) = {}
              /\ profiles' = profiles]_vars

\* after a delete the profile of the removed account is still stored
C12_Witness ==
    /\ last.op = "employee_detail_api" /\ last.method = "DELETE"
    /\ last.status = "HTTP_204_NO_CONTENT"
    /\ last.target \notin DOMAIN employees
    /\ \E p \in DOMAIN profiles : profiles[p].employee \notin DOMAIN users

\* C13: a manager assignment by an ADMIN/HR actor on an existing department
\* clears the manager for an empty id, sets it for the id of an existing
\* employee, and for an id that names no employee ends in NotFound with the
\* manager as before; no other department changes.
C13_AssignManager ==
    [][(/\ last'.op = "update_department_manager_api"
        /\ users[last'.actor].role \in {"ADMIN", "HR"}
        /\ last'.target \in Departments)
        => LET d == last'.target
               m == last'.data["manager_id"]
           IN /\ \A o \in Departments \ {d} : departments'[o] = departments[o]
              /\ m = 0 => (last'.status = Ok /\ departments'[d].manager = 0)
              /\ (m # 0 /\ m \in DOMAIN employees)
                    => (last'.status = Ok /\ departments'[d].manager = m)
              /\ (m # 0 /\ m \notin DOMAIN employees)
                    => (last'.status = "HTTP_404_NOT_FOUND" /\ departments' = departments)]_vars

\* an id that names no employee was refused
C13_Witness ==
    /\ last.op = "update_department_manager_api" /\ last.status = "HTTP_404_NOT_FOUND"
    /\ last.target \in Departments
    /\ last.data["manager_id"] \notin DOMAIN employees

\* C14: the manager of every department is empty or an Employee of that
\* department.
C14_ManagerIsMember ==
    \A d \in Departments :
        \/ departments[d].manager = 0
        \/ /\ departments[d].manager \in DOMAIN employees
           /\ employees[departments[d].manager].department = d

\* C18: a successful create employee leaves a new EMPLOYEE account whose
\* UNVERIFIED profile is in the pending list; a profile leaves the pending list
\* only by an approve of it or by the deletion of its account, and a VERIFIED
\* profile of an EMPLOYEE comes back into it exactly by the owner's successful
\* self-edit.
C18_PendingLifecycle ==
    [][LET before == PendingProfiles(profiles, users)
           after == PendingProfiles(profiles', users')
           selfEdit(u) == /\ last'.op = "employee_profile_api" /\ last'.method = "PUT"
                          /\ last'.status = Ok /\ last'.actor = u
       IN /\ (last'.op = "create_employee_api" /\ last'.status = "HTTP_201_CREATED")
                => \E u \in DOMAIN users' \ DOMAIN users :
                      /\ users'[u].role = "EMPLOYEE"
                      /\ ProfileOf(profiles', u) # {}
                      /\ ProfileOf(profiles', u) \subseteq after
          /\ \A p \in before \ after :
                \/ /\ last'.op = "approve_profile_api" /\ last'.target = p
                   /\ last'.status = Ok
                   /\ users[last'.actor].role \in {"ADMIN", "HR"}
                \/ profiles[p].employee \notin DOMAIN users'
          /\ \A p \in DOMAIN profiles :
                (/\ profiles[p].verified
                 /\ profiles[p].employee \in DOMAIN users
                 /\ users[profiles[p].employee].role = "EMPLOYEE")
                => (p \in after <=> selfEdit(profiles[p].employee))]_vars

\* the profile of the account just created is pending
C18_Witness ==
    /\ last.op = "create_employee_api" /\ last.status = "HTTP_201_CREATED"
    /\ \E p \in PendingProfiles(profiles, users) : profiles[p].employee = nextUser - 1

\* The account whose profile a profile view serves
Viewed(req) ==
    IF req.op = "view_profile_api" /\ req.target # 0
    THEN employees[req.target].user ELSE req.actor

\* C19: the list and read requests change nothing in the store; a profile
\* view that is served changes nothing when the account viewed has a profile and
\* otherwise adds one UNVERIFIED profile for that account; no read changes a
\* profile that exists.
C19_ReadsOnlyCreateLazily ==
    [][/\ (\/ last'.op \in {"employee_list_api", "departments_api", "designations_api",
                            "pending_profiles_api"}
           \/ last'.op = "employee_detail_api" /\ last'.method = "GET")
          => store' = store
       /\ (\/ last'.op = "view_profile_api"
           \/ last'.op = "employee_profile_api" /\ last'.method = "GET")
          => /\ UNCHANGED <<users, employees, departments>>
             /\ \A p \in DOMAIN profiles : p \in DOMAIN profiles' /\ profiles'[p] = profiles[p]
             /\ last'.status # Ok => profiles' = profiles
             /\ last'.status = Ok =>
                  IF ProfileOf(profiles, Viewed(last')) # {}
                  THEN profiles' = profiles
                  ELSE \E p \in DOMAIN profiles' \ DOMAIN profiles :
                          /\ DOMAIN profiles' = DOMAIN profiles \cup {p}
                          /\ profiles'[p].employee = Viewed(last')
                          /\ ~profiles'[p].verified]_vars

\* the view of an employee's profile created the profile of account 1
C19_Witness ==
    /\ last.op = "view_profile_api" /\ last.status = Ok
    /\ last.target \in DOMAIN employees
    /\ employees[last.target].user = 1
    /\ Cardinality(ProfileOf(profiles, 1)) = 1
    /\ \A p \in ProfileOf(profiles, 1) : p = nextProfile - 1 /\ ~profiles[p].verified

\* C15: with requests interleaved at the store's reads and writes, no state
\* shows a profile VERIFIED while it holds content that a self-edit wrote after
\* the profile's latest approval.
C15_EditResetsAtOnce ==
    \A p \in hist.dirty : ~profiles[p].verified

\* C16: the content stored by a self-edit that completed stays in the profile
\* as long as no later self-edit writes it, whatever approve runs alongside.
C16_NoLostEdit ==
    \A p \in DOMAIN hist.done : profiles[p].fields = hist.done[p]

\* C17: no account has more than one Profile or more than one Employee.
C17_OnePerPrincipal ==
    \A u \in DOMAIN users \cup {profiles[p].employee : p \in DOMAIN profiles} :
        /\ Cardinality(ProfileOf(profiles, u)) <= 1
        /\ Cardinality(EmployeeOf(employees, u)) <= 1

\* a request that found no profile is about to create one, and another
\* request has created it meanwhile
C17_Witness ==
    \E req \in DOMAIN inflight :
        /\ req.pc = "create"
        /\ Cardinality(ProfileOf(profiles, req.user)) = 1
====
